---------------------------- MODULE Spec2Model ----------------------------
(*************************************************************************)
(* Two view-state controllers of the Openverse frontend:                 *)
(*   - the global audio track (playback status machine, time-sync loop,  *)
(*     rebinding to the active audio element, toggle and seek);          *)
(*   - the collapsible tag section (row-start detection, overflow,       *)
(*     resize reaction, expand/collapse).                                *)
(*************************************************************************)
EXTENDS Integers, Sequences, FiniteSets, TLC

\* ------------------------------------------------------------------ bounds
\* Largest playback position / duration, in seconds.
MaxTime == 1
\* Seek fractions are n / FracDen for n in 0..FracDen.
FracDen == 2
\* Largest number of animation-frame callbacks pending at once.
MaxRaf == 2
\* Largest number of tags in props.tags (before a repeated name is appended).
MaxTags == 6
\* Largest content width of the tag list, in layout units.
MaxWidth == 3
\* Largest number of children in a measured container.
MaxChildren == 5
\* Largest width of one child, in layout units.
MaxItemWidth == 2
\* Largest offsetLeft of a child handed to findRowStartsAt directly.
MaxOffset == 3
\* Largest number of tags in a list handed to the deduplication directly.
MaxNames == 4

\* ------------------------------------------------------------ audio: values
\* The audio elements that can become the active audio.
Audios == {"a1", "a2"}
\* activeAudio.obj.value when no element is active.
None == "none"
\* handleToggle called without an argument.
Undefined == "undefined"

AudioStatuses == {"paused", "playing", "loading", "played"}
Times == 0..MaxTime

\* A JavaScript number of seconds that is NaN, Infinity, or a finite number
\* kept as its count of thousandths of a second (ms), so that x / 1e3 is exact.
NaN == [nan |-> TRUE, inf |-> FALSE, ms |-> 0]
Infinity == [nan |-> FALSE, inf |-> TRUE, ms |-> 0]
Num(ms) == [nan |-> FALSE, inf |-> FALSE, ms |-> ms]
isNaN(x) == x.nan
isFinite(x) == ~x.nan /\ ~x.inf
\* audio.duration of an element: NaN until the metadata is loaded, then a
\* number of seconds, or Infinity for an unbounded stream.
ResourceDurations == {NaN, Infinity} \cup {Num(1000 * n) : n \in Times}
\* props.audio.duration: not a number (undefined / null), the number NaN, or
\* a number of milliseconds.
Missing == [number |-> FALSE, nan |-> FALSE, ms |-> 0]
NotANumber == [number |-> TRUE, nan |-> TRUE, ms |-> 0]
Millis(n) == [number |-> TRUE, nan |-> FALSE, ms |-> n]
\* The durations the API delivers: none, or a count of milliseconds (JSON
\* carries no NaN); half seconds are among them.
PropDurations == {Missing} \cup {Millis(500 * n) : n \in Times}

VARIABLES
    obj,          \* activeAudio.obj.value: the active element or None
    cleanup,      \* the element the registered onInvalidate callback detaches from
    listeners,    \* per element, the event names the component listens to on it
    status,       \* status.value
    currentTime,  \* currentTime.value (displayed)
    duration,     \* duration.value (displayed)
    hasLoaded,    \* props.audio.hasLoaded
    rafPending,   \* number of requestAnimationFrame(updateTimeLoop) callbacks pending
    sent,         \* AUDIO_INTERACTION events sent by the last step
    calls,        \* calls made on the element / the active-media store by the last step
    threw,        \* the last step ended with an exception
    last          \* the last step: its operation, element, argument and the
                  \* element's paused / ended / currentTime as the step read them

audioVars == <<obj, cleanup, listeners, status, currentTime, duration,
               hasLoaded, rafPending, sent, calls, threw, last>>

VARIABLES
    tags,         \* props.tags, as the sequence of the tags' names
    dir,          \* localeProperties.value.dir
    mounted,      \* the component is mounted (tagsContainerRef is set)
    width,        \* content width of the tag list element
    listWidth,    \* listWidth.value
    collapsibleRowsStartAt,  \* collapsibleRowsStartAt.value
    buttonStatus, \* buttonStatus.value
    debounce,     \* the pending call of the debounced width watcher
    tick,         \* the pending nextTick callback: "none", "measure" or "focus"
    focused,      \* index of the child whose link has the focus
    tagSent,      \* TOGGLE_TAG_EXPANSION events sent by the last step
    tagLast       \* the last step of the tag section

tagVars == <<tags, dir, mounted, width, listWidth, collapsibleRowsStartAt,
             buttonStatus, debounce, tick, focused, tagSent, tagLast>>

VARIABLES
    rows,         \* a container handed to findRowStartsAt, and the result
    scan,         \* children offsets handed to findRowStartsAt, and the result
    tagNames      \* tag names handed to normalizedTags, and the result

rowVars == <<rows, scan, tagNames>>

vars == <<audioVars, tagVars, rowVars>>

\* The component's reactive state, as one value the handlers transform.
\* store collects the calls the running handler makes on the media store.
View == [status |-> status, currentTime |-> currentTime, duration |-> duration,
         hasLoaded |-> hasLoaded, raf |-> rafPending, store |-> <<>>]

\* What a handler reads from an audio element at the time it runs.
Elements == [currentTime : Times, duration : ResourceDurations,
             paused : BOOLEAN, ended : BOOLEAN]
\* The fields a step does not read are left at these values.
Unread == [currentTime |-> 0, duration |-> NaN, paused |-> TRUE, ended |-> FALSE]

\* ---------------------------------------------------------- audio: handlers
\* const duration = defaultRef(() => ...): the value before the first assignment.
\* props.audio.duration / 1e3 seconds is props.audio.duration thousandths of a
\* second, and NaN / 1e3 is NaN.
defaultDuration(propDuration) ==
    IF propDuration.number
    THEN IF propDuration.nan THEN NaN ELSE Num(propDuration.ms)
    ELSE Num(0)

\* updateTimeLoop, run with `active` as activeAudio.obj.value, whose
\* currentTime is t.
\* Mutant of updateTimeLoop: the frame callback runs whatever the status is.
updateTimeLoopAlways(c, active, t) ==
    [c EXCEPT !.currentTime = t, !.raf = c.raf + 1]

updateTimeLoop(c, active, t) ==
    IF active # None /\ c.status \in {"playing", "loading"}
    THEN [c EXCEPT !.currentTime = t, !.raf = c.raf + 1]
    ELSE c

setPlaying(c, active, t) ==
    updateTimeLoop([c EXCEPT !.status = IF c.hasLoaded THEN "playing" ELSE "loading"],
                   active, t)

setPaused(c) == [c EXCEPT !.status = "paused"]

\* Mutant of setPlayed: the ended handler shows the paused state.
setPlayedAsPaused(c) == [c EXCEPT !.status = "paused"]

setPlayed(c) == [c EXCEPT !.status = "played"]

\* Mutant of setTimeWhenPaused: the status guard is dropped.
setTimeAlways(c, target, t) ==
    IF target # None
    THEN [c EXCEPT !.currentTime = t,
                   !.status = IF c.status = "played" THEN "paused" ELSE c.status]
    ELSE c

\* setTimeWhenPaused(event), with `target` as event.target, whose currentTime is t.
setTimeWhenPaused(c, target, t) ==
    IF c.status # "playing" /\ target # None
    THEN [c EXCEPT !.currentTime = t,
                   !.status = IF c.status = "played" THEN "paused" ELSE c.status]
    ELSE c

\* setDuration, with `d` as activeAudio.obj.value.duration.
setDuration(c, active, d) ==
    IF active # None THEN [c EXCEPT !.duration = d] ELSE c

\* setLoaded: the media store is asked to mark the track loaded. The store is
\* another module: when it assigns the properties to the track props.audio
\* is (stored), props.audio.hasLoaded is true from then on, and when it drops
\* them props.audio is as before.
setLoaded(c, stored) ==
    [c EXCEPT !.store = Append(@, [fn |-> "setMediaProperties", hasLoaded |-> TRUE]),
              !.hasLoaded = @ \/ stored,
              !.status = "playing"]

setWaiting(c) == [c EXCEPT !.status = "loading"]

EventNames == {"play", "pause", "ended", "timeupdate", "durationchange",
               "waiting", "playing"}

\* eventMap[name], called for an event dispatched by `target`; targetTime is
\* the target's currentTime, activeTime and activeDuration are read from
\* activeAudio.obj.value; stored is the outcome of the media store's write.
eventMap(name, c, target, targetTime, active, activeTime, activeDuration, stored) ==
    CASE name = "play" -> setPlaying(c, active, activeTime)
      [] name = "pause" -> setPaused(c)
      [] name = "ended" -> setPlayed(c)
      [] name = "timeupdate" -> setTimeWhenPaused(c, target, targetTime)
      [] name = "durationchange" -> setDuration(c, active, activeDuration)
      [] name = "waiting" -> setWaiting(c)
      [] name = "playing" -> setLoaded(c, stored)

\* Object.entries(eventMap).forEach(... audio.addEventListener(name, fn))
addEventListeners(ls, audio) == [ls EXCEPT ![audio] = @ \cup EventNames]

\* Mutant of removeEventListeners: the cleanup detaches nothing.
keepEventListeners(ls, audio) == ls

\* The onInvalidate callback: removeEventListener for every entry of eventMap.
removeEventListeners(ls, audio) ==
    IF audio = None THEN ls ELSE [ls EXCEPT ![audio] = @ \ EventNames]

\* The body of the watch callback for a present element `audio` read as `el`.
watchSync(c, audio, el) ==
    LET c1 == [c EXCEPT !.currentTime = el.currentTime]
        c2 == IF el.duration # Num(0) /\ ~isNaN(el.duration)
              THEN [c1 EXCEPT !.duration = el.duration] ELSE c1
    IN  IF el.paused
        THEN IF el.ended THEN setPlayed(c2) ELSE setPaused(c2)
        ELSE setPlaying(c2, audio, el.currentTime)

\* const play = () => activeMediaStore.playAudio(activeAudio.obj.value)
play(active) == <<[fn |-> "playAudio", target |-> active]>>

\* const pause = () => activeAudio.obj.value?.pause()
pause(active) == IF active = None THEN <<>> ELSE <<[fn |-> "pause", target |-> active]>>

\* Mutant of toggleState: the "played" case label is missing.
toggleStateNoReplay(state, st) ==
    IF state # Undefined THEN state
    ELSE CASE st = "playing" -> "paused"
           [] st = "paused" -> "playing"
           [] OTHER -> Undefined

\* The first switch of handleToggle: the target state when none is given.
toggleState(state, st) ==
    IF state # Undefined THEN state
    ELSE CASE st = "playing" -> "paused"
           [] st \in {"paused", "played"} -> "playing"
           [] OTHER -> Undefined

\* handleToggle(state): the calls it makes and the analytics events it sends.
handleToggle(state, st, active) ==
    LET s == toggleState(state, st)
    IN  CASE s = "playing" -> [calls |-> play(active), sent |-> <<"play">>]
          [] s = "paused" -> [calls |-> pause(active), sent |-> <<"pause">>]
          [] OTHER -> [calls |-> <<>>, sent |-> <<>>]

\* frac * duration.value for frac = n / FracDen: NaN when the duration is
\* NaN, and for 0 * Infinity; Infinity for another fraction of Infinity; else
\* the fraction num / den of a second.
seekTime(n, d) ==
    CASE isNaN(d) \/ (d.inf /\ n = 0) ->
             [nan |-> TRUE, inf |-> FALSE, num |-> 0, den |-> 1]
      [] d.inf /\ n # 0 -> [nan |-> FALSE, inf |-> TRUE, num |-> 0, den |-> 1]
      [] OTHER -> [nan |-> FALSE, inf |-> FALSE, num |-> n * d.ms,
                   den |-> FracDen * 1000]

\* handleSeeked(frac): the element's currentTime setter rejects a non-finite
\* value with a TypeError, which ends the handler before the event is sent.
handleSeeked(n, c, active) ==
    IF active = None
    THEN [calls |-> <<>>, sent |-> <<>>, threw |-> FALSE]
    ELSE LET t == seekTime(n, c.duration)
             call == <<[fn |-> "setCurrentTime", target |-> active, value |-> t]>>
         IN  IF ~isFinite(t)
             THEN [calls |-> <<>>, sent |-> <<>>, threw |-> TRUE]
             ELSE [calls |-> call, sent |-> <<"seek">>, threw |-> FALSE]

\* ------------------------------------------------------------ audio: steps
SetView(c) ==
    /\ status' = c.status
    /\ currentTime' = c.currentTime
    /\ duration' = c.duration
    /\ hasLoaded' = c.hasLoaded
    /\ rafPending' = c.raf

\* A step of the audio track; the tag section is another component.
Step(op, target, arg, el) ==
    /\ last' = [op |-> op, target |-> target, arg |-> arg, paused |-> el.paused,
                ended |-> el.ended, time |-> el.currentTime]
    /\ UNCHANGED <<tagVars, rowVars>>

Quiet == sent' = <<>> /\ calls' = <<>> /\ threw' = FALSE

\* The state after setup(): the refs at their initial values, then the
\* immediate run of the watcher on the element that is active at that time.
AudioInit ==
    \E a \in Audios \cup {None}, el \in Elements, pd \in PropDurations,
       loaded \in BOOLEAN :
        LET c0 == [status |-> "paused", currentTime |-> 0,
                   duration |-> defaultDuration(pd), hasLoaded |-> loaded, raf |-> 0,
                   store |-> <<>>]
            none == [x \in Audios |-> {}]
            c == IF a = None THEN c0 ELSE watchSync(c0, a, el)
        IN  /\ a = None => el = Unread
            /\ obj = a
            /\ cleanup = a
            /\ listeners = IF a = None THEN none ELSE addEventListeners(none, a)
            /\ status = c.status
            /\ currentTime = c.currentTime
            /\ duration = c.duration
            /\ hasLoaded = c.hasLoaded
            /\ rafPending = c.raf
            /\ sent = <<>> /\ calls = <<>> /\ threw = FALSE
            /\ last = [op |-> "setup", target |-> a, arg |-> Undefined,
                       paused |-> el.paused, ended |-> el.ended,
                       time |-> el.currentTime]

\* activeAudio.obj changes to `a` (read as `el`): the cleanup of the previous
\* run detaches the listeners, then the watch callback runs on the new value.
Rebind(a, el) ==
    /\ a # obj
    /\ a = None => el = Unread
    /\ obj' = a
    /\ LET detached == removeEventListeners(listeners, cleanup)
       IN  IF a = None
           THEN /\ listeners' = detached
                /\ cleanup' = None
                /\ SetView(View)
           ELSE /\ listeners' = addEventListeners(detached, a)
                /\ cleanup' = a
                /\ LET c == watchSync(View, a, el)
                   IN  c.raf <= MaxRaf /\ SetView(c)
    /\ Quiet
    /\ Step("rebind", a, Undefined, el)

\* The element `a` dispatches the event `name`. t is the currentTime the
\* handler reads (from the target, or from the active element), d the
\* duration of the active element, stored the outcome of the media store's
\* write in setLoaded.
Emit(a, name, t, d, stored) ==
    /\ name \notin {"timeupdate", "play"} => t = 0
    /\ name # "durationchange" => d = NaN
    /\ name # "playing" => ~stored
    /\ LET c == IF name \in listeners[a]
                THEN eventMap(name, View, a, t, obj, t, d, stored)
                ELSE View
       IN  /\ c.raf <= MaxRaf /\ SetView(c)
           /\ sent' = <<>> /\ calls' = c.store /\ threw' = FALSE
    /\ Step("emit", a, name, [Unread EXCEPT !.currentTime = t])
    /\ UNCHANGED <<obj, cleanup, listeners>>

\* An animation frame: one pending updateTimeLoop callback runs; t is the
\* currentTime of the active element.
Tick(t) ==
    /\ rafPending > 0
    /\ SetView(updateTimeLoop([View EXCEPT !.raf = rafPending - 1], obj, t))
    /\ Quiet
    /\ Step("tick", obj, Undefined, [Unread EXCEPT !.currentTime = t])
    /\ UNCHANGED <<obj, cleanup, listeners>>

ToggleStates == {Undefined, "playing", "paused"}

\* VAudioControl's toggle / VWaveform's toggle-playback.
Toggle(state) ==
    /\ LET r == handleToggle(state, status, obj)
       IN  sent' = r.sent /\ calls' = r.calls
    /\ threw' = FALSE
    /\ Step("toggle", obj, state, Unread)
    /\ UNCHANGED <<obj, cleanup, listeners, status, currentTime, duration,
                   hasLoaded, rafPending>>

\* VWaveform's seeked, with the fraction n / FracDen.
Seek(n) ==
    /\ LET r == handleSeeked(n, View, obj)
       IN  /\ sent' = r.sent
           /\ calls' = r.calls
           /\ threw' = r.threw
    /\ Step("seek", obj, n, Unread)
    /\ UNCHANGED <<obj, cleanup, listeners, status, currentTime, duration,
                   hasLoaded, rafPending>>

AudioNext ==
    \/ \E a \in Audios \cup {None}, el \in Elements : Rebind(a, el)
    \/ \E a \in Audios, name \in EventNames, t \in Times, d \in ResourceDurations,
          stored \in BOOLEAN :
          Emit(a, name, t, d, stored)
    \/ \E t \in Times : Tick(t)
    \/ \E state \in ToggleStates : Toggle(state)
    \/ \E n \in 0..FracDen : Seek(n)


\* -------------------------------------------------------- tags: values
\* const ROWS_TO_DISPLAY = 3
ROWS_TO_DISPLAY == 3
\* gap-3 of the list, in layout units.
Gap == 1

\* An optional number: ref<number>() holds undefined until it is assigned.
Unset == [set |-> FALSE, v |-> 0]
Set(n) == [set |-> TRUE, v |-> n]
\* JavaScript truthiness of an optional number: undefined and 0 are falsy.
Truthy(x) == x.set /\ x.v # 0

\* The names tags are drawn from, and the width each renders at.
TagPool == <<"cat", "Cat", "dog", "bird", "fish", "owl", "newt", "crab">>
TagWidths == [cat |-> 1, Cat |-> 1, dog |-> 2, bird |-> 1, fish |-> 2,
              owl |-> 1, newt |-> 2, crab |-> 1]
\* The tag lists a parent passes: the first n names, optionally followed by
\* the first name again.
TagLists ==
    {SubSeq(TagPool, 1, n) : n \in 0..MaxTags}
        \cup {SubSeq(TagPool, 1, n) \o <<TagPool[1]>> : n \in 1..MaxTags}
Widths == 0..MaxWidth

\* -------------------------------------------------------- tags: layout
\* The boxes of items i..Len(ws) of a wrapping flex row of content width W:
\* an item goes on the current row when it fits after the gap, else it starts
\* the next row; an item keeps its width (the tag's text does not shrink),
\* so an item wider than the row sticks out of it. prevEnd is the
\* inline end of the item before, row the row that item is on.
RECURSIVE flow(_, _, _, _, _)
flow(ws, W, i, prevEnd, row) ==
    IF i > Len(ws) THEN <<>>
    ELSE LET w == ws[i]
             fits == i > 1 /\ prevEnd + Gap + w <= W
             start == IF fits THEN prevEnd + Gap ELSE 0
             r == IF fits THEN row ELSE row + 1
         IN  <<[row |-> r, start |-> start, width |-> w]>>
                 \o flow(ws, W, i + 1, start + w, r)

Boxes(ws, W) == flow(ws, W, 1, 0, 0)

\* offsetLeft of a box: measured from the left edge in both directions, while
\* the boxes of a row run from the inline start.
offsetLeft(box, W, d) ==
    IF d = "rtl" THEN W - box.start - box.width ELSE box.start

\* The offsetLeft of every child of a container laid out at width W.
Offsets(ws, W, d) ==
    [i \in 1..Len(ws) |-> offsetLeft(Boxes(ws, W)[i], W, d)]

\* -------------------------------------------------------- tags: functions
\* Mutant of isFurtherInline: the direction is not consulted.
isFurtherInlineLtr(previous, current, d) == previous > current

isFurtherInline(previous, current, d) ==
    IF d = "rtl" THEN previous < current ELSE previous > current

\* The loop of findRowStartsAt from index i (0-based) with rowCount rows
\* counted so far; offs are the children's offsetLeft.
RECURSIVE rowLoop(_, _, _, _)
rowLoop(offs, d, i, rowCount) ==
    IF i >= Len(offs) THEN Len(offs)
    ELSE LET counted == IF i = 0 THEN rowCount + 1
                        ELSE IF isFurtherInline(offs[i], offs[i + 1], d)
                             THEN rowCount + 1 ELSE rowCount
         IN  IF counted = ROWS_TO_DISPLAY + 1 THEN i
             ELSE rowLoop(offs, d, i + 1, counted)

findRowStartsAt(offs, d) == IF Len(offs) = 0 THEN 0 ELSE rowLoop(offs, d, 0, 0)

\* Array.from(new Set(names)): the first occurrence of every name, in order.
RECURSIVE dedupe(_)
dedupe(names) ==
    IF names = <<>> THEN <<>>
    ELSE LET front == dedupe(SubSeq(names, 1, Len(names) - 1))
             x == names[Len(names)]
         IN  IF \E i \in 1..Len(front) : front[i] = x THEN front
             ELSE Append(front, x)

\* Mutant of normalizedTagsOf: the last occurrence of a name is kept.
RECURSIVE dedupeKeepLast(_)
dedupeKeepLast(ts) ==
    IF ts = <<>> THEN <<>>
    ELSE LET rest == dedupeKeepLast(Tail(ts))
         IN  IF \E i \in 1..Len(rest) : rest[i] = Head(ts) THEN rest
             ELSE <<Head(ts)>> \o rest

normalizedTagsOf(ts) == dedupe(ts)

\* names.slice(0, n)
slice(names, n) == SubSeq(names, 1, IF n > Len(names) THEN Len(names) ELSE n)

\* Mutant of visibleTagsOf: the button status is not consulted.
visibleTagsAlwaysCut(ts, startAt, button) ==
    IF Truthy(startAt)
    THEN slice(normalizedTagsOf(ts), startAt.v)
    ELSE normalizedTagsOf(ts)

visibleTagsOf(ts, startAt, button) ==
    IF Truthy(startAt) /\ button = "show"
    THEN slice(normalizedTagsOf(ts), startAt.v)
    ELSE normalizedTagsOf(ts)

hasOverflowOf(ts, startAt) ==
    Truthy(startAt) /\ startAt.v < Len(normalizedTagsOf(ts))

normalizedTags == normalizedTagsOf(tags)
visibleTags == visibleTagsOf(tags, collapsibleRowsStartAt, buttonStatus)
hasOverflow == hasOverflowOf(tags, collapsibleRowsStartAt)

\* findRowStartsAt(tagsContainerRef.value) when the list renders `names`.
measure(names) ==
    findRowStartsAt(Offsets([i \in 1..Len(names) |-> TagWidths[names[i]]],
                            width, dir), dir)

\* -------------------------------------------------------- tags: steps
NoCall == [pending |-> FALSE, newWidth |-> Unset, oldWidth |-> Unset]

\* The state after setup(), before the component is mounted.
TagsInit ==
    /\ tags \in TagLists
    /\ dir \in {"ltr", "rtl"}
    /\ width \in Widths
    /\ mounted = FALSE
    /\ listWidth = Unset
    /\ collapsibleRowsStartAt = Unset
    /\ buttonStatus = "show"
    /\ debounce = NoCall
    /\ tick = "none"
    /\ focused = Unset
    /\ tagSent = <<>>
    /\ tagLast = "setup"

\* A step of the tag section; the audio track is another component.
TagStep(op) == tagLast' = op /\ UNCHANGED <<audioVars, rowVars>>

\* onMounted: the first render shows every tag, then the rows are measured.
Mount ==
    /\ ~mounted
    /\ mounted' = TRUE
    /\ collapsibleRowsStartAt' = Set(measure(visibleTags))
    /\ tagSent' = <<>>
    /\ TagStep("mount")
    /\ UNCHANGED <<tags, dir, width, listWidth, buttonStatus, debounce, tick, focused>>

\* The layout gives the list the content width w; the resize observer's
\* callback for it is delivered at a later rendering step.
SetWidth(w) ==
    /\ mounted /\ tick = "none"
    /\ w # width
    /\ width' = w
    /\ tagSent' = <<>>
    /\ TagStep("layout")
    /\ UNCHANGED <<tags, dir, mounted, listWidth, collapsibleRowsStartAt,
                   buttonStatus, debounce, tick, focused>>

\* The resize observer's callback: it stores the width the list has now, and
\* the change of listWidth (re)starts the debounced watcher with (new, old).
Resize ==
    /\ mounted /\ tick = "none"
    /\ Set(width) # listWidth
    /\ listWidth' = Set(width)
    /\ debounce' = [pending |-> TRUE, newWidth |-> Set(width), oldWidth |-> listWidth]
    /\ tagSent' = <<>>
    /\ TagStep("resize")
    /\ UNCHANGED <<tags, dir, mounted, width, collapsibleRowsStartAt, buttonStatus,
                   tick, focused>>

\* The debounce delay has passed: the watch callback runs up to nextTick.
WidthWatcher ==
    /\ mounted /\ tick = "none"
    /\ debounce.pending
    /\ LET isWidening == /\ Truthy(debounce.oldWidth)
                         /\ Truthy(debounce.newWidth)
                         /\ debounce.newWidth.v > debounce.oldWidth.v
       IN  collapsibleRowsStartAt' =
               IF isWidening THEN Set(Len(normalizedTags)) ELSE collapsibleRowsStartAt
    /\ debounce' = NoCall
    /\ tick' = "measure"
    /\ tagSent' = <<>>
    /\ TagStep("watcher")
    /\ UNCHANGED <<tags, dir, mounted, width, listWidth, buttonStatus, focused>>

\* The nextTick callback of the width watcher, after the list is rendered.
MeasureTick ==
    /\ tick = "measure"
    /\ collapsibleRowsStartAt' = Set(measure(visibleTags))
    /\ tick' = "none"
    /\ tagSent' = <<>>
    /\ TagStep("measure")
    /\ UNCHANGED <<tags, dir, mounted, width, listWidth, buttonStatus, debounce,
                   focused>>

\* Mutant of toState: the state before the click is reported.
toStateBefore(button) == IF button = "show" THEN "expanded" ELSE "collapsed"

\* toState of the TOGGLE_TAG_EXPANSION event, for the new button status.
toState(button) == IF button = "show" THEN "collapsed" ELSE "expanded"

\* handleClick, up to nextTick; the button is rendered when hasOverflow.
Click ==
    /\ mounted /\ tick = "none"
    /\ hasOverflow
    /\ LET toggled == IF buttonStatus = "show" THEN "hide" ELSE "show"
       IN  /\ buttonStatus' = toggled
           /\ tagSent' = <<[toState |-> toState(toggled)]>>
           /\ tick' = IF toggled = "hide" /\ Truthy(collapsibleRowsStartAt)
                      THEN "focus" ELSE "none"
    /\ TagStep("click")
    /\ UNCHANGED <<tags, dir, mounted, width, listWidth, collapsibleRowsStartAt,
                   debounce, focused>>

\* The nextTick callback of handleClick: focus the link of the child at the
\* break index, when there is such a child.
FocusTick ==
    /\ tick = "focus"
    /\ focused' = IF /\ Truthy(collapsibleRowsStartAt)
                     /\ collapsibleRowsStartAt.v < Len(visibleTags)
                  THEN Set(collapsibleRowsStartAt.v) ELSE focused
    /\ tick' = "none"
    /\ tagSent' = <<>>
    /\ TagStep("focus")
    /\ UNCHANGED <<tags, dir, mounted, width, listWidth, collapsibleRowsStartAt,
                   buttonStatus, debounce>>

\* The parent passes another tag list.
TagsChange(ts) ==
    /\ mounted /\ tick = "none"
    /\ ts # tags
    /\ tags' = ts
    /\ tagSent' = <<>>
    /\ TagStep("tags")
    /\ UNCHANGED <<dir, mounted, width, listWidth, collapsibleRowsStartAt,
                   buttonStatus, debounce, tick, focused>>

TagsNext ==
    \/ Mount
    \/ \E w \in Widths : SetWidth(w)
    \/ Resize
    \/ WidthWatcher
    \/ MeasureTick
    \/ Click
    \/ FocusTick
    \/ \E ts \in TagLists : TagsChange(ts)

\* -------------------------------------------------------- rows: steps
\* The containers findRowStartsAt is applied to: up to MaxChildren children of
\* every width, laid out at every content width, in both directions.
RECURSIVE SeqsUpTo(_, _)
SeqsUpTo(S, n) ==
    IF n = 0 THEN {<<>>}
    ELSE LET shorter == SeqsUpTo(S, n - 1)
         IN  shorter \cup {Append(q, x) : q \in shorter, x \in S}

Containers ==
    [widths : SeqsUpTo(1..MaxItemWidth, MaxChildren), width : 1..MaxWidth,
     dir : {"ltr", "rtl"}]

RowsInit ==
    \E c \in Containers :
        rows = [widths |-> c.widths, width |-> c.width, dir |-> c.dir,
                result |-> Unset]

\* findRowStartsAt(parent) on the container.
FindRowStarts ==
    /\ ~rows.result.set
    /\ rows' = [rows EXCEPT !.result =
                   Set(findRowStartsAt(Offsets(rows.widths, rows.width, rows.dir),
                                       rows.dir))]
    /\ UNCHANGED <<audioVars, tagVars, scan, tagNames>>

RowsNext == FindRowStarts

\* The children findRowStartsAt is applied to, given by their offsetLeft alone.
ScanInit ==
    \E offs \in SeqsUpTo(0..MaxOffset, MaxChildren), d \in {"ltr", "rtl"} :
        scan = [offs |-> offs, dir |-> d, result |-> Unset]

\* findRowStartsAt(parent) on these children.
ScanRowStarts ==
    /\ ~scan.result.set
    /\ scan' = [scan EXCEPT !.result = Set(findRowStartsAt(scan.offs, scan.dir))]
    /\ UNCHANGED <<audioVars, tagVars, rows, tagNames>>

ScanNext == ScanRowStarts

\* The tag lists normalizedTags is computed for: every list of up to MaxNames
\* of these names, repeated names and names differing in case included.
NamePool == {"cat", "Cat", "dog"}
NoNames == [set |-> FALSE, v |-> <<>>]

NamesInit ==
    \E input \in SeqsUpTo(NamePool, MaxNames) :
        tagNames = [input |-> input, result |-> NoNames]

\* normalizedTags for props.tags with these names.
Normalize ==
    /\ ~tagNames.result.set
    /\ tagNames' = [tagNames EXCEPT !.result =
                       [set |-> TRUE, v |-> normalizedTagsOf(tagNames.input)]]
    /\ UNCHANGED <<audioVars, tagVars, rows, scan>>

NamesNext == Normalize

\* ------------------------------------------------------ specifications
\* Each specification runs one component; the others stay as constructed.
AudioIdle ==
    /\ obj = None /\ cleanup = None /\ listeners = [x \in Audios |-> {}]
    /\ status = "paused" /\ currentTime = 0 /\ duration = Num(0)
    /\ hasLoaded = FALSE /\ rafPending = 0
    /\ sent = <<>> /\ calls = <<>> /\ threw = FALSE
    /\ last = [op |-> "setup", target |-> None, arg |-> Undefined,
               paused |-> TRUE, ended |-> FALSE, time |-> 0]

TagsIdle ==
    /\ tags = <<>> /\ dir = "ltr" /\ width = 0 /\ mounted = FALSE
    /\ listWidth = Unset /\ collapsibleRowsStartAt = Unset
    /\ buttonStatus = "show" /\ debounce = NoCall /\ tick = "none"
    /\ focused = Unset /\ tagSent = <<>> /\ tagLast = "setup"

RowsIdle == rows = [widths |-> <<>>, width |-> 1, dir |-> "ltr", result |-> Unset]

ScanIdle == scan = [offs |-> <<>>, dir |-> "ltr", result |-> Unset]

NamesIdle == tagNames = [input |-> <<>>, result |-> NoNames]

InitAudio == AudioInit /\ TagsIdle /\ RowsIdle /\ ScanIdle /\ NamesIdle
SpecAudio == InitAudio /\ [][AudioNext]_vars

InitTags == TagsInit /\ AudioIdle /\ RowsIdle /\ ScanIdle /\ NamesIdle
SpecTags == InitTags /\ [][TagsNext]_vars

InitRows == RowsInit /\ AudioIdle /\ TagsIdle /\ ScanIdle /\ NamesIdle
SpecRows == InitRows /\ [][RowsNext]_vars

InitScan == ScanInit /\ AudioIdle /\ TagsIdle /\ RowsIdle /\ NamesIdle
SpecScan == InitScan /\ [][ScanNext]_vars

InitNames == NamesInit /\ AudioIdle /\ TagsIdle /\ RowsIdle /\ ScanIdle
SpecNames == InitNames /\ [][NamesNext]_vars

\* An animation frame is eventually delivered while a callback is pending.
SpecAudioFair == SpecAudio /\ WF_vars(\E t \in Times : Tick(t))

\* ------------------------------------------------------- audio: properties
\* The last step was an event of an element that the component listens to.
Handled == last.op = "emit" /\ last.arg \in listeners[last.target]

\* The status the transition table lists for an event received in status st.
TableStatus(name, st, loaded) ==
    CASE name = "play" -> IF loaded THEN "playing" ELSE "loading"
      [] name = "pause" -> "paused"
      [] name = "ended" -> "played"
      [] name = "waiting" -> "loading"
      [] name = "playing" -> "playing"
      [] name = "durationchange" -> st
      [] name = "timeupdate" -> IF st = "played" THEN "paused" ELSE st

\* C1: the status is always one of paused, playing, loading, played, and every
\* received event changes it exactly as the transition table lists.
C1_TransitionTable ==
    /\ [](status \in AudioStatuses)
    /\ [][Handled' => status' = TableStatus(last'.arg, status, hasLoaded)]_vars

\* C1 witness: a play event was received for a track not marked loaded.
C1_Witness ==
    Handled /\ last.arg = "play" /\ ~hasLoaded /\ status = "loading"

\* The last step bound the component to a present element.
Rebound == last.op = "rebind" /\ last.target # None

\* C2: after rebinding to a present element, ended=true yields played; paused=true and
\* ended=false yields paused; paused=false yields playing.
C2_RebindStatusAsStated ==
    Rebound => status = IF last.ended THEN "played"
                        ELSE IF last.paused THEN "paused" ELSE "playing"

\* C3: a timeupdate event received while the status is playing changes
\* neither the displayed current time nor the status.
C3_TimeupdateWhilePlaying ==
    [][(status = "playing" /\ Handled' /\ last'.arg = "timeupdate")
        => (currentTime' = currentTime /\ status' = status)]_vars

\* C3 witness: a timeupdate whose element time differs from the displayed
\* time was received in status playing.
C3_Witness ==
    /\ Handled /\ last.arg = "timeupdate" /\ last.target = obj
    /\ status = "playing" /\ last.time # currentTime

\* C4: with no element bound, toggle and seek call nothing and send no
\* analytics event.
C4_UnboundIsNoOp ==
    (last.op \in {"toggle", "seek"} /\ obj = None)
        => (sent = <<>> /\ calls = <<>> /\ ~threw)

\* What toggle is to request for its argument and the current status.
ToggleRequest(arg, st) ==
    CASE arg = "playing" -> "play"
      [] arg = "paused" -> "pause"
      [] arg = Undefined /\ st = "playing" -> "pause"
      [] arg = Undefined /\ st \in {"paused", "played"} -> "play"
      [] OTHER -> "nothing"

\* C5: toggle requests play or pause as (argument, status) determine, sends
\* exactly one matching analytics event per request, and does nothing in
\* status loading when called without an argument.
C5_ToggleTable ==
    last.op = "toggle" =>
        LET want == ToggleRequest(last.arg, status)
        IN  CASE want = "play" ->
                    /\ calls = <<[fn |-> "playAudio", target |-> obj]>>
                    /\ sent = <<"play">>
              [] want = "pause" ->
                    /\ calls = IF obj = None THEN <<>>
                               ELSE <<[fn |-> "pause", target |-> obj]>>
                    /\ sent = <<"pause">>
              [] OTHER -> calls = <<>> /\ sent = <<>>

\* C5 witness: toggle without argument in status played requested play on
\* the bound element.
C5_Witness ==
    /\ last.op = "toggle" /\ last.arg = Undefined /\ status = "played"
    /\ obj # None /\ sent = <<"play">>

\* C6: only the active element carries listeners (all seven or none), and an
\* event of any other element changes neither status, displayed current
\* time nor displayed duration.
C6_NoEventLeakage ==
    /\ [](\A a \in Audios :
            listeners[a] # {} => (a = obj /\ listeners[a] = EventNames))
    /\ [][(last'.op = "emit" /\ last'.target # obj)
            => (status' = status /\ currentTime' = currentTime
                /\ duration' = duration)]_vars

\* C6 witness: while one element is bound and playing, the other element
\* dispatched a pause event.
C6_Witness ==
    /\ last.op = "emit" /\ last.arg = "pause" /\ obj # None
    /\ last.target # obj /\ listeners[last.target] = {}
    /\ listeners[obj] = EventNames /\ status = "playing"

\* C7: the displayed duration is never NaN.
C7_DurationNeverNaN == ~isNaN(duration)

\* C8: with an element bound, seek sets its current time to fraction times
\* the displayed duration and sends exactly one seek event; with none bound
\* it calls nothing and sends nothing.
C8_Seek ==
    last.op = "seek" =>
        IF obj = None
        THEN calls = <<>> /\ sent = <<>> /\ ~threw
        ELSE /\ ~threw
             /\ sent = <<"seek">>
             /\ isFinite(duration)
             /\ calls = <<[fn |-> "setCurrentTime", target |-> obj,
                           value |-> [nan |-> FALSE, inf |-> FALSE,
                                      num |-> last.arg * duration.ms,
                                      den |-> FracDen * 1000]]>>

\* -------------------------------------------------------- tags: properties
\* C9: the break index is unset or within 0..normalizedTags.length, and
\* hasOverflow is true exactly when it is set and below that length.
C9_BreakIndexInRange ==
    /\ collapsibleRowsStartAt.set
           => collapsibleRowsStartAt.v \in 0..Len(normalizedTags)
    /\ hasOverflow <=> (/\ collapsibleRowsStartAt.set
                        /\ collapsibleRowsStartAt.v < Len(normalizedTags))

\* The index (0-based) of the first box on row ROWS_TO_DISPLAY + 1, or the
\* number of boxes when there is none.
TrueRowStart(boxes) ==
    LET beyond == {i \in 1..Len(boxes) : boxes[i].row = ROWS_TO_DISPLAY + 1}
    IN  IF beyond = {} THEN Len(boxes)
        ELSE (CHOOSE i \in beyond : \A j \in beyond : i <= j) - 1

\* C10: for every layout, findRowStartsAt is the index of the first child of
\* visual row 4, or the child count when there are at most 3 rows.
C10_FindsFourthRow ==
    rows.result.set => rows.result.v = TrueRowStart(Boxes(rows.widths, rows.width))

\* C11: visibleTags is every normalized tag when the section is expanded or
\* has no overflow, and otherwise exactly the first collapsibleRowsStartAt
\* normalized tags, in order.
C11_VisibleTags ==
    IF buttonStatus = "hide" \/ ~hasOverflow
    THEN visibleTags = normalizedTags
    ELSE /\ Len(visibleTags) = collapsibleRowsStartAt.v
         /\ \A i \in 1..Len(visibleTags) : visibleTags[i] = normalizedTags[i]

\* C11 witness: a collapsed section with overflow shows fewer tags than it has.
C11_Witness ==
    /\ mounted /\ buttonStatus = "show" /\ hasOverflow
    /\ Len(visibleTags) = collapsibleRowsStartAt.v
    /\ Len(visibleTags) < Len(normalizedTags)

\* The width watcher is called with a new width above the previous one.
Wider == /\ debounce.oldWidth.set /\ debounce.newWidth.set
         /\ debounce.newWidth.v > debounce.oldWidth.v

\* C12: when the debounced watcher fires with a new width strictly greater
\* than the previous one, the break index is first set to the tag count and
\* re-measured only in the next render pass; otherwise it is left unchanged
\* until that re-measurement.
C12_OptimisticReveal ==
    [][tagLast' = "watcher" =>
        /\ tick' = "measure"
        /\ collapsibleRowsStartAt' =
              IF Wider THEN Set(Len(normalizedTags)) ELSE collapsibleRowsStartAt]_vars

\* C13: a click flips the button status, sends one TOGGLE_TAG_EXPANSION event
\* naming the resulting state and moves no focus itself; after expanding with
\* the break index set, the next render pass focuses the link of the child at
\* the break index if there is one, and collapsing schedules no focus.
C13_Click ==
    /\ [][tagLast' = "click" =>
            /\ buttonStatus' = (IF buttonStatus = "show" THEN "hide" ELSE "show")
            /\ tagSent' = <<[toState |-> IF buttonStatus' = "hide" THEN "expanded"
                                         ELSE "collapsed"]>>
            /\ focused' = focused
            /\ (tick' = "focus") <=>
                   (buttonStatus' = "hide" /\ collapsibleRowsStartAt.set)
            /\ tick' \in {"focus", "none"}]_vars
    /\ [][tagLast' = "focus" =>
            /\ tagSent' = <<>>
            /\ focused' = IF collapsibleRowsStartAt.v < Len(normalizedTags)
                          THEN Set(collapsibleRowsStartAt.v) ELSE focused]_vars

\* C13 witness: after expanding, the child at the break index has the focus.
C13_Witness ==
    /\ tagLast = "focus" /\ buttonStatus = "hide"
    /\ focused = collapsibleRowsStartAt /\ focused.v < Len(normalizedTags)

\* The boxes of all normalized tags laid out at the current width.
FullLayout == Boxes([i \in 1..Len(normalizedTags) |-> TagWidths[normalizedTags[i]]], width)

\* C18: once the debounced recomputation and the render pass after it have
\* run, the break index is the index of the first tag on row 4 when all
\* normalized tags are laid out at the final width, or the tag count when
\* they fit in 3 rows, whether the section is collapsed or expanded.
C18_SettledBreakIndex ==
    (tagLast = "measure" /\ ~debounce.pending /\ listWidth = Set(width)) =>
        collapsibleRowsStartAt = Set(TrueRowStart(FullLayout))

\* ------------------------------------------------ audio: the time-sync loop
\* The statuses in which the time-sync loop reschedules itself.
Active == {"playing", "loading"}

\* C15: whenever a resource is bound and the status is playing or loading, a
\* time-sync tick is pending, however that status was reached.
C15_TickPendingWhileActive ==
    (obj # None /\ status \in Active) => rafPending > 0

\* C16: a tick that fires while the status is outside {playing, loading}, or
\* while no resource is bound, leaves the displayed current time alone and
\* schedules no further tick; and if the status stays outside
\* {playing, loading}, eventually no tick is pending.
C16_SelfTerminating ==
    /\ [][(last'.op = "tick" /\ (obj = None \/ status \notin Active)) =>
            /\ currentTime' = currentTime
            /\ rafPending' = rafPending - 1]_vars
    /\ (status \notin Active) ~> (status \in Active \/ rafPending = 0)

\* C16 witness: the tick that was pending when a bound resource was paused
\* has fired and nothing is pending after it.
C16_Witness ==
    /\ last.op = "tick" /\ obj # None
    /\ status = "paused" /\ rafPending = 0

\* C17: at most one time-sync tick is pending at any time.
C17_OneTickPending == rafPending <= 1

\* C19: a received timeupdate event changes the displayed current time only
\* when the status is paused or played.
C19_TimeupdateOnlyWhenPaused ==
    [][(Handled' /\ last'.arg = "timeupdate" /\ currentTime' # currentTime) =>
            status \in {"paused", "played"}]_vars

\* -------------------------------------------------------- names: properties
\* The position of the first occurrence of x in q.
FirstAt(q, x) == CHOOSE i \in 1..Len(q) : q[i] = x /\ \A j \in 1..(i - 1) : q[j] # x

\* C14: normalizedTags holds every name of the input exactly once, the names
\* ordered as their first occurrences are; names that differ only in case
\* are different tagNames.
C14_Deduplicated ==
    tagNames.result.set =>
        LET input == tagNames.input
            out == tagNames.result.v
        IN  /\ {out[i] : i \in 1..Len(out)} = {input[i] : i \in 1..Len(input)}
            /\ \A i, j \in 1..Len(out) : i < j =>
                   /\ out[i] # out[j]
                   /\ FirstAt(input, out[i]) < FirstAt(input, out[j])

\* C14 witness: a repeated name is dropped, and cat and Cat are both kept.
C14_Witness ==
    /\ tagNames.input = <<"cat", "Cat", "dog", "cat">>
    /\ tagNames.result = [set |-> TRUE, v |-> <<"cat", "Cat", "dog">>]

\* -------------------------------------------------------- scan: properties
\* Child i (1-based) starts a row of the reference counter.
StartsRow(offs, d, i) ==
    \/ i = 1
    \/ i > 1 /\ d = "ltr" /\ offs[i] < offs[i - 1]
    \/ i > 1 /\ d = "rtl" /\ offs[i] > offs[i - 1]

\* The row the reference counter puts child i on.
RowOf(offs, d, i) == Cardinality({j \in 1..i : StartsRow(offs, d, j)})

\* The index (0-based) of the child that starts row ROWS_TO_DISPLAY + 1 of the
\* reference counter, or the child count.
ReferenceRowStart(offs, d) ==
    LET beyond == {i \in 1..Len(offs) : RowOf(offs, d, i) = ROWS_TO_DISPLAY + 1}
    IN  IF beyond = {} THEN Len(offs)
        ELSE (CHOOSE i \in beyond : \A j \in beyond : i <= j) - 1

\* C20: findRowStartsAt equals the reference row counter on every sequence
\* of offsets: the index of the child that starts row 4, the child count
\* when fewer rows are counted, 0 for no children.
C20_ReferenceCounter ==
    scan.result.set => scan.result.v = ReferenceRowStart(scan.offs, scan.dir)

\* C20 witness: a right-to-left list whose fourth counted row starts before
\* its last child.
C20_Witness ==
    /\ scan.result.set /\ scan.dir = "rtl"
    /\ scan.result.v + 1 < Len(scan.offs)
    /\ scan.result.v = ReferenceRowStart(scan.offs, scan.dir)

=============================================================================
